---- MODULE Spec2Model ----
(***************************************************************************)
(* Model of the NorthstarET LMS spec-input core:                           *)
(*   src/src/models/spec_input.py            (class SpecInput)             *)
(*   src/src/services/spec_input_service.py  (class SpecInputService)      *)
(*                                                                         *)
(* Text is a sequence of one-character strings, so that trimming, case     *)
(* folding and the regular-expression substitutions of SpecInput.sanitize  *)
(* are computed character by character, as Python computes them.           *)
(***************************************************************************)
EXTENDS Integers, Sequences, FiniteSets

VARIABLES
    specs,       \* the SpecInput objects the caller holds: id -> fields
    heap,        \* the list objects: LIVE is service._processed_specs, COPY a returned list
    retRef,      \* the list the caller got from get_processed_specs (NOREF: none)
    result,      \* what the latest call returned or raised
    successes    \* history variable: process_spec successes since the last clear

vars == <<specs, heap, retRef, result, successes>>

----------------------------------------------------------------------------
(* Bounds of the model *)

MaxHist == 3        \* process_spec is not called once the history holds this many
MaxFrags == 3       \* contents of SpecSan are made of at most this many fragments

----------------------------------------------------------------------------
(* Text helpers (Python str methods) *)

UpperChars == <<"A","B","C","D","E","F","G","H","I","J","K","L","M",
                "N","O","P","Q","R","S","T","U","V","W","X","Y","Z">>
LowerChars == <<"a","b","c","d","e","f","g","h","i","j","k","l","m",
                "n","o","p","q","r","s","t","u","v","w","x","y","z">>

UpperSet == {UpperChars[k] : k \in DOMAIN UpperChars}

LowerOf == [ch \in UpperSet |->
              LowerChars[CHOOSE k \in DOMAIN UpperChars : UpperChars[k] = ch]]

\* str.lower() on one character
LowerChar(ch) == IF ch \in UpperSet THEN LowerOf[ch] ELSE ch

\* str.lower()
Lower(s) == [k \in 1..Len(s) |-> LowerChar(s[k])]

\* the characters str.strip() removes
Whitespace == {" ", "\n", "\t"}

\* position of the first character at or after i that is no whitespace
RECURSIVE FirstInk(_, _)
FirstInk(s, i) ==
    IF i <= Len(s) /\ s[i] \in Whitespace THEN FirstInk(s, i + 1) ELSE i

\* position of the last character at or before i that is no whitespace
RECURSIVE LastInk(_, _)
LastInk(s, i) ==
    IF i >= 1 /\ s[i] \in Whitespace THEN LastInk(s, i - 1) ELSE i

\* str.strip()
Strip(s) == SubSeq(s, FirstInk(s, 1), LastInk(s, Len(s)))

----------------------------------------------------------------------------
(* Regular expressions of SpecInput.sanitize, under re.IGNORECASE *)

\* the literal p (lower case) matches s at position i, ignoring case
LiteralAt(s, i, p) ==
    /\ i >= 1
    /\ i + Len(p) - 1 <= Len(s)
    /\ \A k \in 1..Len(p) : s[i + k - 1] = p[k] \/ LowerChar(s[i + k - 1]) = p[k]

\* position of the first ">" at or after position from, 0 if there is none
RECURSIVE FirstGt(_, _)
FirstGt(s, from) ==
    IF from > Len(s) THEN 0
    ELSE IF s[from] = ">" THEN from
    ELSE FirstGt(s, from + 1)

\* position of the first match of the literal p at or after from, 0 if none
RECURSIVE FirstLiteral(_, _, _)
FirstLiteral(s, from, p) ==
    IF from > Len(s) THEN 0
    ELSE IF LiteralAt(s, from, p) THEN from
    ELSE FirstLiteral(s, from + 1, p)

OpenLit(tag) == <<"<">> \o tag
CloseLit(tag) == <<"<", "/">> \o tag \o <<">">>

\* <tag[^>]*>.*?</tag> with DOTALL: last position of the match that starts
\* at i, 0 if there is no match at i.  [^>]* stops at the first ">", and the
\* lazy .*? stops at the first closing tag after it.
PairedMatchEnd(s, i, tag) ==
    IF s[i] # "<" \/ ~LiteralAt(s, i, OpenLit(tag)) THEN 0
    ELSE LET gt == FirstGt(s, i + Len(tag) + 1)
         IN  IF gt = 0 THEN 0
             ELSE LET cl == FirstLiteral(s, gt + 1, CloseLit(tag))
                  IN  IF cl = 0 THEN 0 ELSE cl + Len(tag) + 2

\* <tag[^>]*/?> : last position of the match that starts at i, 0 if none
OpenMatchEnd(s, i, tag) ==
    IF s[i] # "<" \/ ~LiteralAt(s, i, OpenLit(tag)) THEN 0
    ELSE FirstGt(s, i + Len(tag) + 1)

\* re.sub(pattern, '', s): leftmost matches, left to right, not overlapping
RECURSIVE ReSubFrom(_, _, _, _)
ReSubFrom(s, i, tag, paired) ==
    IF i > Len(s) THEN <<>>
    ELSE LET e == IF paired THEN PairedMatchEnd(s, i, tag)
                  ELSE OpenMatchEnd(s, i, tag)
         IN  IF e # 0 THEN ReSubFrom(s, e + 1, tag, paired)
             ELSE <<s[i]>> \o ReSubFrom(s, i + 1, tag, paired)

\* a variant of ReSubOpen: re.sub(..., count=1), only the first match goes
ReSubOpenOnce(s, tag) ==
    LET RECURSIVE FirstMatch(_)
        FirstMatch(i) ==
            IF i > Len(s) THEN 0
            ELSE IF OpenMatchEnd(s, i, tag) # 0 THEN i
            ELSE FirstMatch(i + 1)
        at == FirstMatch(1)
    IN  IF at = 0 THEN s
        ELSE SubSeq(s, 1, at - 1) \o SubSeq(s, OpenMatchEnd(s, at, tag) + 1, Len(s))

ReSubPaired(s, tag) == ReSubFrom(s, 1, tag, TRUE)
ReSubOpen(s, tag) == ReSubFrom(s, 1, tag, FALSE)

----------------------------------------------------------------------------
(* class SpecInput *)

T_text == <<"t","e","x","t">>
T_markdown == <<"m","a","r","k","d","o","w","n">>
T_html == <<"h","t","m","l">>

VALID_FORMATS == {T_markdown, T_text, T_html}
MIN_CONTENT_LENGTH == 2

T_script == <<"s","c","r","i","p","t">>
T_iframe == <<"i","f","r","a","m","e">>
T_object == <<"o","b","j","e","c","t">>
T_embed == <<"e","m","b","e","d">>
T_form == <<"f","o","r","m">>
T_input == <<"i","n","p","u","t">>

harmful_tags == <<T_iframe, T_object, T_embed, T_form, T_input>>

\* An optional value: <<>> is None, <<v>> is the value v
None == <<>>
Some(v) == <<v>>
IsNone(o) == o = <<>>
Get(o) == o[1]

\* a variant of SpecInputNew: the format is stored as given
SpecInputNewAsGiven(content, format) ==
    [ content |-> content,
      format |-> IF IsNone(format) \/ Get(format) = <<>>
                 THEN T_text ELSE Get(format),
      format_arg |-> format,
      sanitized_content |-> None ]

\* SpecInput.__init__: format is an optional text (None when absent)
SpecInputNew(content, format) ==
    [ content |-> content,
      format |-> IF IsNone(format) \/ Get(format) = <<>>
                 THEN T_text ELSE Lower(Get(format)),
      format_arg |-> format,
      sanitized_content |-> None ]

\* a variant of is_valid: the format is not looked at
is_valid_content_only(self) ==
    IF Len(Strip(self.content)) < MIN_CONTENT_LENGTH THEN FALSE
    ELSE TRUE

\* SpecInput.is_valid
is_valid(self) ==
    IF Len(Strip(self.content)) < MIN_CONTENT_LENGTH THEN FALSE
    ELSE IF self.format \notin VALID_FORMATS THEN FALSE
    ELSE TRUE

\* the loop over harmful_tags: a paired removal, then an open-tag removal
RECURSIVE RemoveHarmful(_, _)
RemoveHarmful(content, k) ==
    IF k > Len(harmful_tags) THEN content
    ELSE RemoveHarmful(
            ReSubOpen(ReSubPaired(content, harmful_tags[k]), harmful_tags[k]),
            k + 1)

\* the text SpecInput.sanitize computes when nothing is cached
SanitizeText(content) ==
    Strip(RemoveHarmful(ReSubPaired(content, T_script), 1))

\* a variant of CacheHit: the cache is tested for truth, not against None
CacheHitTruthy(self) ==
    ~IsNone(self.sanitized_content) /\ Get(self.sanitized_content) # <<>>

\* SpecInput.sanitize: whether the cached text is returned
CacheHit(self) == ~IsNone(self.sanitized_content)

\* SpecInput.sanitize: the text returned
sanitize_value(self) ==
    IF CacheHit(self) THEN Get(self.sanitized_content)
    ELSE SanitizeText(self.content)

\* SpecInput.sanitize: the object afterwards
sanitize_self(self) ==
    IF CacheHit(self) THEN self
    ELSE [self EXCEPT !.sanitized_content = Some(SanitizeText(self.content))]

----------------------------------------------------------------------------
(* Contents the sanitizer is run on: concatenations of these fragments *)

Fragments ==
    { <<"<","s","c","r","i","p","t",">">>,
      <<"<","/","S","C","R","I","P","T",">">>,
      <<"<","i","n","p","u","t",">">>,
      <<"<","i","n">>,
      <<"p","u","t",">">>,
      <<"<","f","o","r","m",">">>,
      <<"<","/","f","o","r","m",">">>,
      <<"<","i","f">>,
      <<"r","a","m","e",">">>,
      <<"\n">>,
      <<"x">> }

RECURSIVE ContentsUpTo(_)
ContentsUpTo(n) ==
    IF n = 0 THEN {<<>>}
    ELSE LET prev == ContentsUpTo(n - 1)
         IN  prev \cup {c \o f : c \in prev, f \in Fragments}

SanContents == ContentsUpTo(MaxFrags)

----------------------------------------------------------------------------
(* Results of calls *)

\* the argument of a service call: a SpecInput object, None, or a plain str
InstArg(i) == [kind |-> "SpecInput", id |-> i]
NoneArg == [kind |-> "None", id |-> 0]
StrArg == [kind |-> "str", id |-> 0]
NoArg == [kind |-> "-", id |-> 0]

\* outcome: "result" a SpecInputProcessingResult was returned (success,
\* message, data), "value" a plain value was returned, "raised" the call
\* raised the exception named in error
Outcome(op, arg) ==
    [ op |-> op, arg |-> arg, outcome |-> "value", success |-> FALSE,
      message |-> "", error |-> "", data |-> <<>>, value |-> <<>> ]

\* SpecInputProcessingResult.__init__
ProcessingResult(op, arg, success, message, data) ==
    [Outcome(op, arg) EXCEPT !.outcome = "result", !.success = success,
                             !.message = message, !.data = data]

Raised(op, arg, error) ==
    [Outcome(op, arg) EXCEPT !.outcome = "raised", !.error = error]

Returned(op, arg, value) ==
    [Outcome(op, arg) EXCEPT !.value = <<value>>]

\* what a call on the injected logger does
LoggerOutcomes == {"ok", "raises"}

\* what logger.error does in a call whose logger.info did logInfo: it is
\* only called after logger.info raised
ErrorOutcomes(logInfo) == IF logInfo = "ok" THEN {"ok"} ELSE LoggerOutcomes

----------------------------------------------------------------------------
(* class SpecInputService *)

\* process_spec: the isinstance check
IsSpecInput(arg) == arg.kind = "SpecInput"

\* a variant of NotSpecInputResult: the type check raises
NotSpecInputRaises(arg) == Raised("process_spec", arg, "TypeError")

\* process_spec: the result for an argument that is no SpecInput
NotSpecInputResult(arg) ==
    ProcessingResult("process_spec", arg, FALSE,
                     "Invalid input: must be SpecInput instance", <<>>)

\* a variant of InvalidSpecOutcome: a failure result instead of the raise
InvalidSpecSoft(arg) ==
    ProcessingResult("process_spec", arg, FALSE, "Invalid specification", <<>>)

\* process_spec: the outcome for a SpecInput that is not valid
InvalidSpecOutcome(arg) == Raised("process_spec", arg, "ValueError")

\* a variant of StoreProcessed: an input already stored is not stored again
StoreProcessedOnce(hist, id) ==
    IF \E k \in DOMAIN hist : hist[k] = id THEN hist ELSE Append(hist, id)

\* process_spec: self._processed_specs.append(spec_input)
StoreProcessed(hist, id) == Append(hist, id)

\* process_spec: processed_data
ProcessedData(self, sanitized) ==
    << [ original_length |-> Len(self.content),
         sanitized_length |-> Len(sanitized),
         format |-> self.format ] >>

\* process_spec, from the state (objects st, history hist) and the logger's
\* behaviour on logger.info and logger.error: the state and outcome after
process_spec(arg, st, hist, logInfo, logError) ==
    IF ~IsSpecInput(arg)
    THEN [specs |-> st, hist |-> hist, out |-> NotSpecInputResult(arg)]
    ELSE IF ~is_valid(st[arg.id])
    THEN [specs |-> st, hist |-> hist, out |-> InvalidSpecOutcome(arg)]
    ELSE LET self == st[arg.id]
             sanitized == sanitize_value(self)
             st2 == [st EXCEPT ![arg.id] = sanitize_self(self)]
             hist2 == StoreProcessed(hist, arg.id)
         IN  IF logInfo = "ok"
             THEN [specs |-> st2, hist |-> hist2,
                   out |-> ProcessingResult("process_spec", arg, TRUE,
                               "Specification processed successfully",
                               ProcessedData(self, sanitized))]
             ELSE IF logError = "ok"
             THEN [specs |-> st2, hist |-> hist2,
                   out |-> ProcessingResult("process_spec", arg, FALSE,
                               "Error processing specification", <<>>)]
             ELSE [specs |-> st2, hist |-> hist2,
                   out |-> Raised("process_spec", arg, "LoggerError")]

\* f"Content too short (minimum {SpecInput.MIN_CONTENT_LENGTH} characters)"
ContentTooShort ==
    [ text |-> "Content too short", minimum |-> MIN_CONTENT_LENGTH,
      format |-> <<>>, valid |-> {} ]

\* f"Invalid format '{spec_input.format}'. Valid formats: {', '.join(...)}":
\* the names are joined in the iteration order of the set VALID_FORMATS,
\* which the language leaves open, so the message is kept as the format
\* it quotes and the set of names it lists
InvalidFormat(format) ==
    [ text |-> "Invalid format", minimum |-> 0,
      format |-> format, valid |-> VALID_FORMATS ]

\* a variant of get_validation_errors: the format is looked at first
get_validation_errors_format_first(self) ==
    (IF self.format \notin VALID_FORMATS
     THEN <<InvalidFormat(self.format)>> ELSE <<>>)
    \o
    (IF Len(Strip(self.content)) < MIN_CONTENT_LENGTH
     THEN <<ContentTooShort>> ELSE <<>>)

\* SpecInputService._get_validation_errors
get_validation_errors(self) ==
    (IF Len(Strip(self.content)) < MIN_CONTENT_LENGTH
     THEN <<ContentTooShort>> ELSE <<>>)
    \o
    (IF self.format \notin VALID_FORMATS
     THEN <<InvalidFormat(self.format)>> ELSE <<>>)

\* SpecInputApp._get_validation_errors
app_get_validation_errors(self) ==
    (IF Len(Strip(self.content)) < MIN_CONTENT_LENGTH
     THEN <<ContentTooShort>> ELSE <<>>)
    \o
    (IF self.format \notin VALID_FORMATS
     THEN <<InvalidFormat(self.format)>> ELSE <<>>)

\* a variant of handle_invalid_spec: a valid input is reported as a success
handle_invalid_spec_lenient(arg, st) ==
    IF arg.kind = "None"
    THEN ProcessingResult("handle_invalid_spec", arg, FALSE,
                          "Cannot process null specification", <<>>)
    ELSE IF arg.kind = "str"
    THEN Raised("handle_invalid_spec", arg, "AttributeError")
    ELSE ProcessingResult("handle_invalid_spec", arg, is_valid(st[arg.id]),
                          "Invalid specification",
                          << [errors |-> get_validation_errors(st[arg.id])] >>)

\* handle_invalid_spec
handle_invalid_spec(arg, st) ==
    IF arg.kind = "None"
    THEN ProcessingResult("handle_invalid_spec", arg, FALSE,
                          "Cannot process null specification", <<>>)
    ELSE IF arg.kind = "str"
    THEN Raised("handle_invalid_spec", arg, "AttributeError")
    ELSE ProcessingResult("handle_invalid_spec", arg, FALSE,
                          "Invalid specification",
                          << [errors |-> get_validation_errors(st[arg.id])] >>)

\* a variant of ListCopy: the live list itself is returned
ListAlias(ref) == ref

\* get_processed_specs: the list object returned for the list object ref,
\* a new list ("copy") holding the same elements
ListCopy(ref) == "copy"

----------------------------------------------------------------------------
(* The callers' inputs *)

C_input_ab == <<"<","i","n","p","u","t",">","a","b">>
C_x == <<"x">>
C_abc == <<"a","b","c">>
C_sp_x_sp == <<" ","x"," ">>

\* SpecInput(content, format) objects the service's caller has built:
\* two valid ones of equal content, one too short, one of an unknown
\* format, one both
ServiceInputs ==
    << SpecInputNew(C_input_ab, Some(T_text)),
       SpecInputNew(C_input_ab, Some(<<"H","T","M","L">>)),
       SpecInputNew(C_x, None),
       SpecInputNew(C_abc, Some(<<"p","d","f">>)),
       SpecInputNew(C_sp_x_sp, Some(<<"P","D","F">>)) >>

\* the arguments a caller passes to the service
Args == {InstArg(i) : i \in DOMAIN specs} \cup {NoneArg, StrArg}

Live == heap["live"]

----------------------------------------------------------------------------
(* Operations *)

\* SpecInputService.__init__ : an empty history, nothing returned yet
ServiceInit ==
    /\ heap = [r \in {"live", "copy"} |-> <<>>]
    /\ retRef = "none"
    /\ result = Outcome("init", NoArg)
    /\ successes = 0

\* service.process_spec(arg)
ProcessSpec(arg, logInfo, logError) ==
    /\ Len(Live) < MaxHist
    /\ LET o == process_spec(arg, specs, Live, logInfo, logError)
       IN  /\ specs' = o.specs
           /\ heap' = [heap EXCEPT !["live"] = o.hist]
           /\ result' = o.out
           /\ successes' = IF o.out.outcome = "result" /\ o.out.success
                           THEN successes + 1 ELSE successes
    /\ UNCHANGED retRef

\* service.handle_invalid_spec(arg)
HandleInvalidSpec(arg) ==
    /\ result' = handle_invalid_spec(arg, specs)
    /\ UNCHANGED <<specs, heap, retRef, successes>>

\* service.get_processed_count()
GetProcessedCount ==
    /\ result' = Returned("get_processed_count", NoArg, Len(Live))
    /\ UNCHANGED <<specs, heap, retRef, successes>>

\* service.get_processed_specs(): the caller keeps the returned list, and
\* lets go of the one it got before
GetProcessedSpecs ==
    /\ retRef' = ListCopy("live")
    /\ heap' = [heap EXCEPT ![retRef'] = Live]
    /\ result' = Outcome("get_processed_specs", NoArg)
    /\ UNCHANGED <<specs, successes>>

\* service.clear_processed_specs(): list.clear(), then logger.info
ClearProcessedSpecs(logInfo) ==
    /\ heap' = [heap EXCEPT !["live"] = <<>>]
    /\ result' = IF logInfo = "ok"
                 THEN Outcome("clear_processed_specs", NoArg)
                 ELSE Raised("clear_processed_specs", NoArg, "LoggerError")
    /\ successes' = 0
    /\ UNCHANGED <<specs, retRef>>

\* the caller changes the list it got from get_processed_specs
CallerAppend(i) ==
    /\ retRef # "none"
    /\ Len(heap[retRef]) < MaxHist
    /\ heap' = [heap EXCEPT ![retRef] = Append(@, i)]
    /\ result' = Outcome("caller_append", NoArg)
    /\ UNCHANGED <<specs, retRef, successes>>

CallerPop ==
    /\ retRef # "none"
    /\ heap[retRef] # <<>>
    /\ heap' = [heap EXCEPT ![retRef] = SubSeq(@, 1, Len(@) - 1)]
    /\ result' = Outcome("caller_pop", NoArg)
    /\ UNCHANGED <<specs, retRef, successes>>

CallerReverse ==
    /\ retRef # "none"
    /\ heap' = [heap EXCEPT ![retRef] = [k \in 1..Len(@) |-> @[Len(@) + 1 - k]]]
    /\ result' = Outcome("caller_reverse", NoArg)
    /\ UNCHANGED <<specs, retRef, successes>>

CallerClear ==
    /\ retRef # "none"
    /\ heap' = [heap EXCEPT ![retRef] = <<>>]
    /\ result' = Outcome("caller_clear", NoArg)
    /\ UNCHANGED <<specs, retRef, successes>>

\* app._get_validation_errors(spec_input), whose list process_specification
\* returns under 'errors'
AppGetValidationErrors(i) ==
    /\ result' = Returned("app_get_validation_errors", InstArg(i),
                          app_get_validation_errors(specs[i]))
    /\ UNCHANGED <<specs, heap, retRef, successes>>

\* spec_input.is_valid()
IsValid(i) ==
    /\ result' = Returned("is_valid", InstArg(i), is_valid(specs[i]))
    /\ UNCHANGED <<specs, heap, retRef, successes>>

\* spec_input.sanitize()
Sanitize(i) ==
    /\ result' = Returned("sanitize", InstArg(i), sanitize_value(specs[i]))
    /\ specs' = [specs EXCEPT ![i] = sanitize_self(@)]
    /\ UNCHANGED <<heap, retRef, successes>>

\* spec_input.content = c : the field is not protected
SetContent(i, c) ==
    /\ specs' = [specs EXCEPT ![i].content = c]
    /\ result' = Outcome("set_content", InstArg(i))
    /\ UNCHANGED <<heap, retRef, successes>>

----------------------------------------------------------------------------
(* Spec: one service and the inputs of ServiceInputs *)

Init ==
    /\ specs = ServiceInputs
    /\ ServiceInit

Next ==
    \/ \E arg \in Args, li \in LoggerOutcomes :
          \E le \in ErrorOutcomes(li) : ProcessSpec(arg, li, le)
    \/ \E arg \in Args : HandleInvalidSpec(arg)
    \/ GetProcessedCount
    \/ GetProcessedSpecs
    \/ \E li \in LoggerOutcomes : ClearProcessedSpecs(li)
    \/ \E i \in {j \in DOMAIN specs : is_valid(specs[j])} : CallerAppend(i)
    \/ CallerPop
    \/ CallerReverse
    \/ CallerClear

Spec == Init /\ [][Next]_vars

----------------------------------------------------------------------------
(* SpecModel: one SpecInput built from any content and format argument of
   the sets below, its methods, and a service it is passed to *)

ModelContents ==
    { <<>>, <<" ">>, C_x, C_sp_x_sp, <<"a","b">>, <<" ","a","b","\n">>,
      <<"<","i","n","p","u","t",">">>, C_input_ab }

FormatArgs ==
    { None, Some(<<>>), Some(T_text), Some(<<"T","E","X","T">>),
      Some(<<"M","a","r","k","d","o","w","n">>), Some(T_html),
      Some(<<"p","d","f">>), Some(<<" ","t","e","x","t">>) }

InitModel ==
    /\ specs \in {<<SpecInputNew(c, f)>> : c \in ModelContents, f \in FormatArgs}
    /\ ServiceInit

NextModel ==
    \/ \E i \in DOMAIN specs : IsValid(i)
    \/ \E i \in DOMAIN specs : Sanitize(i)
    \/ \E i \in DOMAIN specs, c \in ModelContents : SetContent(i, c)
    \/ \E i \in DOMAIN specs, li \in LoggerOutcomes :
          \E le \in ErrorOutcomes(li) : ProcessSpec(InstArg(i), li, le)
    \/ \E li \in LoggerOutcomes : ClearProcessedSpecs(li)
    \/ \E arg \in Args : HandleInvalidSpec(arg)
    \/ \E i \in DOMAIN specs : AppGetValidationErrors(i)

SpecModel == InitModel /\ [][NextModel]_vars

----------------------------------------------------------------------------
(* SpecSan: a SpecInput of any content of SanContents is sanitized, and a
   fresh SpecInput is built from the sanitized text and sanitized in turn *)

\* SpecInput(content=first.sanitize())
ConstructFromSanitized ==
    /\ Len(specs) = 1
    /\ CacheHit(specs[1])
    /\ specs' = Append(specs, SpecInputNew(Get(specs[1].sanitized_content), None))
    /\ result' = Outcome("construct", InstArg(Len(specs) + 1))
    /\ UNCHANGED <<heap, retRef, successes>>

InitSan ==
    /\ specs \in {<<SpecInputNew(c, None)>> : c \in SanContents}
    /\ ServiceInit

NextSan ==
    \/ \E i \in DOMAIN specs : Sanitize(i)
    \/ ConstructFromSanitized

SpecSan == InitSan /\ [][NextSan]_vars

----------------------------------------------------------------------------
(* Properties *)

\* sanitize() has stored a text on the object
Cached(self) == self.sanitized_content # None

IsPrefix(a, b) == Len(a) <= Len(b) /\ SubSeq(b, 1, Len(a)) = a

IsProcess(r) == r.op = "process_spec"
IsSuccess(r) == r.outcome = "result" /\ r.success
IsFailure(r) == r.outcome = "raised" \/ (r.outcome = "result" /\ ~r.success)

CallerOps == {"caller_append", "caller_pop", "caller_reverse", "caller_clear"}

C1_AllOrNothingStep ==
    IsProcess(result') =>
        \/ IsSuccess(result') /\ Live' = Append(Live, result'.arg.id)
        \/ IsFailure(result') /\ Live' = Live

\* C1: every process_spec call either returns a success result with the
\* history grown by exactly the input passed, or fails (a failure result or
\* an exception) with the history as it was before the call.
C1_AllOrNothing == [][C1_AllOrNothingStep]_vars

C2_InvalidRaisesStep ==
    (/\ IsProcess(result')
     /\ result'.arg.kind = "SpecInput"
     /\ ~is_valid(specs[result'.arg.id]))
    => /\ result'.outcome = "raised"
       /\ result'.error = "ValueError"
       /\ heap' = heap
       /\ specs' = specs

\* C2: process_spec on a SpecInput whose is_valid() is false raises
\* ValueError, whatever makes it invalid, and changes neither the history
\* nor any sanitize cache.
C2_InvalidRaises == [][C2_InvalidRaisesStep]_vars

\* C2 witness: the input that is both too short and of an unknown format
\* was refused by a service whose history is not empty
C2_Witness ==
    /\ IsProcess(result)
    /\ result.arg = InstArg(5)
    /\ result.outcome = "raised"
    /\ Len(Strip(specs[5].content)) < MIN_CONTENT_LENGTH
    /\ specs[5].format \notin VALID_FORMATS
    /\ Live # <<>>

C3_WrongTypeStep ==
    (IsProcess(result') /\ result'.arg.kind # "SpecInput")
    => /\ result'.outcome = "result"
       /\ ~result'.success
       /\ result'.message = "Invalid input: must be SpecInput instance"
       /\ heap' = heap
       /\ specs' = specs

\* C3: process_spec on an argument that is no SpecInput (None included)
\* raises nothing, returns a failure result with the message "Invalid
\* input: must be SpecInput instance", and leaves the history unchanged.
C3_WrongType == [][C3_WrongTypeStep]_vars

\* C3 witness: None was passed to a service whose history is not empty
C3_Witness ==
    /\ IsProcess(result)
    /\ result.arg = NoneArg
    /\ result.outcome = "result"
    /\ ~result.success
    /\ Len(Live) = 2

\* C4: get_processed_count() returns the number of process_spec calls that
\* returned success since the last clear_processed_specs (0 on a new
\* service, and after a clear).
C4_CountIsSuccesses ==
    result.op = "get_processed_count" => result.value = <<successes>>

C5_AppendOnlyStep ==
    /\ result'.op # "clear_processed_specs" => IsPrefix(Live, Live')
    /\ (IsProcess(result') /\ IsSuccess(result'))
       => Live' = Append(Live, result'.arg.id)

\* C5: apart from clear_processed_specs, every operation leaves the old
\* history as a prefix of the new one, and a successful process_spec puts
\* its input at the end, also when that input is already in the history.
C5_AppendOnly == [][C5_AppendOnlyStep]_vars

\* C5 witness: the same instance twice, around another instance of equal
\* content
C5_Witness ==
    /\ Live = <<1, 2, 1>>
    /\ specs[1].content = specs[2].content
    /\ IsProcess(result) /\ IsSuccess(result)

C6_CopyStep ==
    /\ result'.op = "get_processed_specs"
       => /\ retRef' # "live"
          /\ heap'[retRef'] = Live
          /\ Live' = Live
    /\ result'.op \in CallerOps => Live' = Live
    /\ (result'.op \in {"process_spec", "clear_processed_specs"} /\ retRef # "none")
       => heap'[retRef] = heap[retRef]

\* C6: get_processed_specs() returns a list equal to the history that is
\* not the history's own list and leaves the history alone; changing the
\* returned list changes no history, and process_spec and
\* clear_processed_specs change no list returned earlier.
C6_Copy == [][C6_CopyStep]_vars

\* C6 witness: the caller appended to the list it was given, which now is
\* longer than the history
C6_Witness ==
    /\ result.op = "caller_append"
    /\ retRef # "none"
    /\ Live # <<>>
    /\ Len(heap[retRef]) > Len(Live)

C7_CacheStableStep ==
    \A i \in DOMAIN specs :
        Cached(specs[i]) =>
            /\ specs'[i].sanitized_content = specs[i].sanitized_content
            /\ (result'.op = "sanitize" /\ result'.arg = InstArg(i))
               => result'.value = specs[i].sanitized_content
            /\ (IsProcess(result') /\ IsSuccess(result') /\ result'.arg = InstArg(i))
               => result'.data[1].sanitized_length = Len(Get(specs[i].sanitized_content))

\* C7: once sanitize() has cached a text on an instance, the cache keeps
\* it, every later sanitize() returns it and every later successful
\* process_spec reports its length, whatever the content field holds now.
C7_CacheStable == [][C7_CacheStableStep]_vars

\* C7 witness: sanitize() returned the cached empty text although the
\* content now held sanitizes to something else
C7_Witness ==
    /\ result.op = "sanitize"
    /\ result.value = <<(<<>>)>>
    /\ SanitizeText(specs[1].content) # <<>>

\* no "<" lies between a "<" and the next ">"
NoNestedBracket(c) ==
    \A i, j \in DOMAIN c :
        (i < j /\ c[i] = "<" /\ c[j] = "<")
        => \E k \in (i + 1)..(j - 1) : c[k] = ">"

Resanitized == Len(specs) = 2 /\ Cached(specs[1]) /\ Cached(specs[2])

\* C8 as stated: for every content, sanitizing a fresh SpecInput built from
\* the sanitized text gives that text again.
C8_Idempotent ==
    Resanitized => specs[2].sanitized_content = specs[1].sanitized_content

\* C8 as amended: sanitized text never starts or ends with whitespace, and
\* for a content in which no "<" lies between a "<" and the next ">",
\* sanitizing a fresh SpecInput built from the sanitized text gives that
\* text again.
C8_IdempotentUnnested ==
    /\ \A i \in DOMAIN specs :
          Cached(specs[i]) =>
             LET t == Get(specs[i].sanitized_content)
             IN  t = <<>> \/ (t[1] \notin Whitespace /\ t[Len(t)] \notin Whitespace)
    /\ (Resanitized /\ NoNestedBracket(specs[1].content))
       => specs[2].sanitized_content = specs[1].sanitized_content

\* C8 witness: a content without nested brackets from which a pass removed
\* something, sanitized twice
C8_Witness ==
    /\ Resanitized
    /\ NoNestedBracket(specs[1].content)
    /\ Len(Get(specs[1].sanitized_content)) > 0
    /\ Len(Get(specs[1].sanitized_content)) + 2 < Len(specs[1].content)
    /\ \E k \in DOMAIN specs[1].content : specs[1].content[k] = "<"

\* the length of c without its leading and trailing whitespace
TrimmedLen(c) ==
    LET ink == {k \in DOMAIN c : c[k] \notin Whitespace}
    IN  IF ink = {} THEN 0
        ELSE (CHOOSE k \in ink : \A h \in ink : h <= k)
             - (CHOOSE k \in ink : \A h \in ink : k <= h) + 1

SameLetter(x, y) ==
    x = y \/ \E k \in DOMAIN UpperChars : {x, y} = {UpperChars[k], LowerChars[k]}

EqIgnoreCase(a, b) ==
    Len(a) = Len(b) /\ \A k \in DOMAIN a : SameLetter(a[k], b[k])

\* the format argument, None and "" counting as text, is text, markdown or
\* html in any case
RecognisedFormatArg(f) ==
    LET given == IF f = None \/ f = Some(<<>>) THEN T_text ELSE Get(f)
    IN  \E v \in {T_text, T_markdown, T_html} : EqIgnoreCase(given, v)

ExpectedValid(self) ==
    TrimmedLen(self.content) >= 2 /\ RecognisedFormatArg(self.format_arg)

C9_ValidNow ==
    /\ \A i \in DOMAIN specs : is_valid(specs[i]) = ExpectedValid(specs[i])
    /\ result.op = "is_valid"
       => result.value = <<ExpectedValid(specs[result.arg.id])>>

C9_ValidStep ==
    /\ C9_ValidNow'
    /\ result'.op = "is_valid" => (specs' = specs /\ heap' = heap)

\* C9: is_valid() is true exactly when the trimmed content has at least 2
\* characters and the format given at construction is text, markdown or
\* html in any case (None and "" counting as text); the call changes
\* neither the object nor the service.
C9_IsValid == C9_ValidNow /\ [][C9_ValidStep]_vars

\* C9 witness: is_valid() returned True for padded content and an
\* upper-case format
C9_Witness ==
    /\ result.op = "is_valid"
    /\ result.value = <<TRUE>>
    /\ specs[1].format_arg = Some(<<"T","E","X","T">>)
    /\ specs[1].content = <<" ","a","b","\n">>

C10_HandleStep ==
    (result'.op = "handle_invalid_spec" /\ result'.arg.kind \in {"None", "SpecInput"})
    => /\ result'.outcome = "result"
       /\ ~result'.success
       /\ result'.arg.kind = "None"
          => result'.message = "Cannot process null specification"
       /\ heap' = heap
       /\ specs' = specs

\* C10: handle_invalid_spec on None or on any SpecInput raises nothing and
\* returns a failure result (for None with the message "Cannot process
\* null specification"); it changes neither the history nor any object.
C10_Handle == [][C10_HandleStep]_vars

\* C10 witness: a valid SpecInput that is in the history was handed to
\* handle_invalid_spec, which returned a failure result
C10_Witness ==
    /\ result.op = "handle_invalid_spec"
    /\ result.arg.kind = "SpecInput"
    /\ is_valid(specs[result.arg.id])
    /\ \E k \in DOMAIN Live : Live[k] = result.arg.id
    /\ result.outcome = "result"
    /\ ~result.success

IsContentMessage(m) == m.text = "Content too short" /\ m.minimum = 2

IsFormatMessage(m, self) ==
    /\ m.text = "Invalid format"
    /\ m.format = self.format
    /\ m.valid = {T_text, T_markdown, T_html}

\* the list errs is the one the claim describes for the input self
C11_ListFor(errs, self) ==
    /\ \A k \in DOMAIN errs :
          IsContentMessage(errs[k]) \/ IsFormatMessage(errs[k], self)
    /\ (\E k \in DOMAIN errs : IsContentMessage(errs[k]))
          <=> TrimmedLen(self.content) < 2
    /\ (\E k \in DOMAIN errs : IsFormatMessage(errs[k], self))
          <=> self.format \notin {T_text, T_markdown, T_html}
    /\ \A j, k \in DOMAIN errs :
          (IsContentMessage(errs[j]) /\ IsFormatMessage(errs[k], self))
             => j < k
    /\ Len(errs) <= 2
    /\ (errs = <<>>) <=> is_valid(self)

\* C11: the validation error list of a SpecInput, as handle_invalid_spec
\* returns it in data.errors and as the application layer returns it, holds
\* the content-too-short message exactly when the trimmed content is shorter
\* than 2, the invalid-format message exactly when the format is not text,
\* markdown or html, the content message before the format message, and is
\* empty exactly when is_valid() is true; the service and the application
\* layer build the same list for the same input.
C11_ValidationErrors ==
    /\ (result.op = "handle_invalid_spec" /\ result.arg.kind = "SpecInput")
          => /\ result.outcome = "result"
             /\ C11_ListFor(Get(result.data).errors, specs[result.arg.id])
    /\ result.op = "app_get_validation_errors"
          => C11_ListFor(Get(result.value), specs[result.arg.id])
    /\ \A i \in DOMAIN specs :
          get_validation_errors(specs[i]) = app_get_validation_errors(specs[i])

\* C11 witness: handle_invalid_spec returned both messages, content first,
\* for an input with short content and an unknown format
C11_Witness ==
    /\ result.op = "handle_invalid_spec"
    /\ result.arg.kind = "SpecInput"
    /\ TrimmedLen(specs[result.arg.id].content) < 2
    /\ specs[result.arg.id].format \notin {T_text, T_markdown, T_html}
    /\ Len(Get(result.data).errors) = 2
    /\ IsContentMessage(Get(result.data).errors[1])

C11_WitnessApp ==
    /\ result.op = "app_get_validation_errors"
    /\ Len(Get(result.value)) = 2
    /\ IsFormatMessage(Get(result.value)[2], specs[result.arg.id])

\* the history holds objects only, each of them valid
C12_HistoryNow ==
    \A k \in DOMAIN Live :
        Live[k] \in DOMAIN specs /\ ExpectedValid(specs[Live[k]])

\* the history gets a new element only from a process_spec whose argument
\* is an object that is valid when the call is made
C12_HistoryStep ==
    /\ (Live' # Live /\ result'.op # "clear_processed_specs")
       => /\ result'.op = "process_spec"
          /\ result'.arg.kind = "SpecInput"
          /\ ExpectedValid(specs[result'.arg.id])
          /\ Live' = Append(Live, result'.arg.id)
    /\ (IsProcess(result') /\ result'.arg.kind # "SpecInput") => Live' = Live
    /\ (IsProcess(result') /\ result'.arg.kind = "SpecInput"
          /\ ~ExpectedValid(specs[result'.arg.id])) => Live' = Live
    /\ result'.op = "handle_invalid_spec" => Live' = Live

\* C12: after any sequence of service operations every element of the
\* history is a SpecInput that was valid when process_spec appended it: a
\* value that is no SpecInput, an input the validity check rejects, and an
\* argument of handle_invalid_spec never get into the history.
C12_HistoryValid == C12_HistoryNow /\ [][C12_HistoryStep]_vars

\* C12 witness: the history holds two inputs, and an invalid input that
\* is not among them has just been handed to handle_invalid_spec
C12_Witness ==
    /\ Len(Live) >= 2
    /\ result.op = "handle_invalid_spec"
    /\ result.arg.kind = "SpecInput"
    /\ ~ExpectedValid(specs[result.arg.id])
    /\ \A k \in DOMAIN Live : Live[k] # result.arg.id

====
